---------------------------- MODULE Spec2Model ----------------------------
(***************************************************************************)
(* Model of src/app.js: the relay between a chat platform and a streaming  *)
(* agent backend.  The state is the module-level variables of app.js       *)
(* (ws, reconnectAttempts, currentMessage, messageContent, lastUpdateTime, *)
(* isStreaming), the sockets and timers the code creates, the suspended    *)
(* async handlers (each await of a platform call is a suspension point),   *)
(* and the log of calls issued to the chat platform.                       *)
(***************************************************************************)
EXTENDS Integers, Sequences, FiniteSets, TLC

(***************************************************************************)
(* Text.  A JavaScript string is kept run-length encoded: a sequence of    *)
(* runs [ch, n] (n > 0, adjacent runs with different characters), so that  *)
(* a line of 3000 characters is one run.  Two strings are equal exactly    *)
(* when their encodings are equal.                                         *)
(***************************************************************************)
NL == "\n"

Run(c, k) == [ch |-> c, n |-> k]

Str(c, k) == IF k = 0 THEN << >> ELSE << Run(c, k) >>

\* s + t (string concatenation)
Cat(s, t) ==
  IF s = << >> THEN t
  ELSE IF t = << >> THEN s
  ELSE IF s[Len(s)].ch = t[1].ch
       THEN SubSeq(s, 1, Len(s) - 1)
              \o << Run(t[1].ch, s[Len(s)].n + t[1].n) >>
              \o Tail(t)
       ELSE s \o t

\* s.length
RECURSIVE StrLen(_)
StrLen(s) == IF s = << >> THEN 0 ELSE s[1].n + StrLen(Tail(s))

\* the characters String.prototype.trim removes (those of the alphabet used)
IsSpace(c) == c \in {NL, " "}

RECURSIVE TrimStart(_)
TrimStart(s) ==
  IF s = << >> THEN s
  ELSE IF IsSpace(s[1].ch) THEN TrimStart(Tail(s)) ELSE s

RECURSIVE TrimEnd(_)
TrimEnd(s) ==
  IF s = << >> THEN s
  ELSE IF IsSpace(s[Len(s)].ch) THEN TrimEnd(SubSeq(s, 1, Len(s) - 1)) ELSE s

\* s.trim()
Trim(s) == TrimEnd(TrimStart(s))

\* s.split('\n'): the lines of s, "" giving one empty line
RECURSIVE SplitFrom(_, _)
SplitFrom(s, acc) ==
  IF s = << >> THEN acc
  ELSE IF s[1].ch = NL
       THEN SplitFrom(Tail(s), acc \o [i \in 1..s[1].n |-> << >>])
       ELSE SplitFrom(Tail(s),
                      SubSeq(acc, 1, Len(acc) - 1)
                        \o << Cat(acc[Len(acc)], << s[1] >>) >>)

SplitLines(s) == SplitFrom(s, << << >> >>)

\* parts.join('\n')
RECURSIVE JoinLines(_)
JoinLines(parts) ==
  IF parts = << >> THEN << >>
  ELSE IF Len(parts) = 1 THEN parts[1]
  ELSE Cat(Cat(parts[1], Str(NL, 1)), JoinLines(Tail(parts)))

\* s is a prefix of t (s = t.slice(0, s.length))
IsPrefix(s, t) ==
  \/ s = << >>
  \/ /\ Len(s) <= Len(t)
     /\ \A i \in 1..(Len(s) - 1) : s[i] = t[i]
     /\ s[Len(s)].ch = t[Len(s)].ch
     /\ s[Len(s)].n <= t[Len(s)].n

\* t.includes(e): e occurs in t when its runs lie on consecutive runs of t,
\* the inner ones equal and the two outer ones of the same character and at
\* most as long
Includes(t, e) ==
  \/ e = << >>
  \/ \E i \in 0..(Len(t) - Len(e)) :
       /\ \A j \in 1..Len(e) : t[i + j].ch = e[j].ch
       /\ \A j \in 2..(Len(e) - 1) : t[i + j].n = e[j].n
       /\ IF Len(e) = 1 THEN t[i + 1].n >= e[1].n
          ELSE t[i + 1].n >= e[1].n /\ t[i + Len(e)].n >= e[Len(e)].n

(***************************************************************************)
(* The splitter of handleChatResponse (app.js 351-368).                    *)
(***************************************************************************)
MAX_LENGTH == 3000

\* the for-loop over lines and the trailing push of a non-empty chunk
RECURSIVE SplitLoop(_, _, _, _)
SplitLoop(lines, i, chunks, currentChunk) ==
  IF i > Len(lines)
  THEN IF currentChunk # << >> THEN Append(chunks, currentChunk) ELSE chunks
  ELSE LET line == lines[i]
       IN IF StrLen(currentChunk) + StrLen(line) + 1 > MAX_LENGTH
          THEN SplitLoop(lines, i + 1, Append(chunks, currentChunk), line)
          ELSE SplitLoop(lines, i + 1, chunks,
                         IF currentChunk # << >>
                         THEN Cat(Cat(currentChunk, Str(NL, 1)), line)
                         ELSE line)

\* the chunks handleChatResponse sends for a (trimmed) content
SplitChunks(content) ==
  IF StrLen(content) > MAX_LENGTH
  THEN SplitLoop(SplitLines(content), 1, << >>, << >>)
  ELSE << content >>

\* the chunks handleChatResponse sends for the content of a frame: it trims
\* the content and returns at once when nothing is left (app.js 345-347)
ResponseChunks(raw) ==
  LET content == Trim(raw)
  IN IF content = << >> THEN << >> ELSE SplitChunks(content)


(***************************************************************************)
(* Constants of app.js.                                                    *)
(***************************************************************************)
MAX_RECONNECT_ATTEMPTS == 5
RECONNECT_DELAY == 1000
updateInterval == 500

(***************************************************************************)
(* Bounds of the model.                                                    *)
(***************************************************************************)
\* user turns and sockets of the streaming specification
MaxTurns == 1
MaxSockets == 2
\* sockets of the turns that end in error, reconnects included
MaxErrSockets == 2
\* user turns and sockets of the connection specification
MaxConnTurns == 2
MaxConnSockets == 8
\* frames delivered: of a streamed response, of turns that end in error, of
\* a complete response
MaxFrames == 3
MaxErrFrames == 2
MaxChatFrames == 2
\* frames delivered when frames of every kind are mixed
MaxMixedFrames == 3
\* platform calls answered rate_limited / with another error
MaxRateLimits == 1
MaxPlatformErrors == 1
\* clock ticks: the clock runs from StartTime to StartTime + MaxClock
StartTime == 1000000
MaxClock == 500
\* lines of a content given to the splitter alone
MaxLines == 4

NULL == 0

\* texts the program writes
ThinkingText == Str("Thinking...", 1)
GenericErrorText == Str("Sorry, there was an error processing your request.", 1)
ApologyText == Str("Sorry, there was an error processing your message.", 1)
MentionApologyText == Str("Sorry, there was an error processing your mention.", 1)
AckMarker == Str("Connected to ANA Multi-Agent", 1)
\* error.message of a failed connect / a failed say / a failed ws.send
ConnectErrorText == Str("connect failed", 1)
SayErrorText == Str("say failed", 1)
SendErrorText == Str("send failed", 1)

\* a handleErrorMessage that writes the generic text of the socket error
\* handler instead of the error it was given
ErrorTextGeneric(e) == GenericErrorText

\* `Error: ${jsonMessage.error}` (app.js 297)
ErrorText(e) == Cat(Str("Error: ", 1), e)

\* parseInt(error.retryAfter) || 1, times 1000 (app.js 334-335); 0 stands for
\* a retryAfter that is absent, not a number, or 0
RetryDelay(retryAfter) == (IF retryAfter = 0 THEN 1 ELSE retryAfter) * 1000

(***************************************************************************)
(* Inputs.                                                                 *)
(***************************************************************************)
UserText == Str("q", 1)
\* the two handlers that call sendWebSocketMessage: app.message (app.js 199)
\* and app.event('app_mention') (app.js 247)
Entries == { "message", "mention" }
ChunkContents == { Str("a", 1), Str("b", 1) }
ErrorTexts == { Str("backend down", 1) }
ShortContent == Str("r", 1)
LongContent == Cat(Str("a", 2000), Cat(Str(NL, 1), Str("b", 2000)))
\* a long content with empty lines where the first chunk fills up
GapContent == Cat(Str("a", MAX_LENGTH - 1), Cat(Str(NL, 3), Str("a", MAX_LENGTH \div 2)))
ChatContents == { ShortContent, LongContent, GapContent }
RetryAfterValues == { 0, 1 }
TickSteps == { 100, 500 }

Frame(t, c, e) == [type |-> t, content |-> c, error |-> e]

\* the frames of a streamed response
ChunkFrames ==
  { Frame("stream_chunk", c, << >>) : c \in ChunkContents }
    \cup { Frame("stream_complete", << >>, << >>) }

\* the frames of a streamed response, and an error frame
StreamFrames == ChunkFrames \cup { Frame("error", << >>, e) : e \in ErrorTexts }

\* the frames of a complete response
ChatFrames ==
  { Frame(t, c, << >>) : t \in {"chat_response", "stream"}, c \in ChatContents }

\* text that is no JSON, and the greeting of the backend
OtherFrames ==
  { Frame("malformed", << >>, << >>), Frame("connection", AckMarker, << >>) }

(***************************************************************************)
(* State.                                                                  *)
(***************************************************************************)
VARIABLES
  ws,                \* app.js 7: the shared socket reference (a socket id or NULL)
  reconnectAttempts, \* app.js 8
  currentMessage,    \* app.js 23: the placeholder message (its ts) or NULL
  messageContent,    \* app.js 24
  lastUpdateTime,    \* app.js 25
  isStreaming,       \* app.js 26
  sockets,           \* readyState of every socket created, by socket id
  timers,            \* pending reconnect timers (app.js 137), [delay, due]
  tasks,             \* suspended async functions, each awaiting one thing
  calls,             \* the platform calls issued, in the order issued
  sent,              \* the frames sent upstream by ws.send
  clock,             \* Date.now()
  frames,            \* history: frames received since the turn's start
  phase,             \* history: "none", "active", "completed" or "errored"
  ended,             \* history: the handler that finished in the last step
  turnStart,         \* history: the clock when the turn's request was sent
  nTurns,            \* history: user turns so far
  nFrames,           \* history: frames received so far
  scheduled,         \* history: delays of the reconnects scheduled since the last open
  splitIn, splitOut, splitDone  \* the splitter applied alone

connVars == << ws, reconnectAttempts, sockets, timers, scheduled >>
turnVars == << currentMessage, messageContent, lastUpdateTime, isStreaming >>
histVars == << frames, phase, turnStart, nFrames >>
splitVars == << splitIn, splitOut, splitDone >>
vars == << ws, reconnectAttempts, currentMessage, messageContent, lastUpdateTime,
           isStreaming, sockets, timers, tasks, calls, sent, clock, frames,
           phase, ended, turnStart, nTurns, nFrames, scheduled, splitIn,
           splitOut,
           splitDone >>

\* a suspended async function: what it awaits (a platform call, a socket's
\* promise, or a retry delay) and the locals it resumes with
NoTask == [kind |-> "", via |-> "", call |-> 0, sock |-> 0, now |-> 0, content |-> << >>,
           rest |-> << >>, target |-> 0, due |-> 0]

\* a call to the platform: chat.update of message ts, or a post (say or
\* chat.postMessage) threaded under ts (0: not threaded); by: the code that
\* issues it, at: the time it is issued, st: the platform's answer
Call(op, ts, text, by) ==
  [op |-> op, ts |-> ts, text |-> text, by |-> by, at |-> clock, st |-> "pending"]

InitState ==
  /\ ws = NULL
  /\ reconnectAttempts = 0
  /\ currentMessage = NULL
  /\ messageContent = << >>
  /\ lastUpdateTime = 0
  /\ isStreaming = FALSE
  /\ sockets = << >>
  /\ timers = << >>
  /\ tasks = {}
  /\ calls = << >>
  /\ sent = << >>
  /\ clock = StartTime
  /\ frames = << >>
  /\ phase = "none"
  /\ ended = ""
  /\ turnStart = 0
  /\ nTurns = 0
  /\ nFrames = 0
  /\ scheduled = << >>

Init ==
  /\ InitState
  /\ splitIn = << >>
  /\ splitOut = << >>
  /\ splitDone = FALSE

(***************************************************************************)
(* establishConnection (app.js 30-150).                                    *)
(***************************************************************************)
\* ws && ws.readyState === WebSocket.OPEN (app.js 31)
IsOpen == ws # NULL /\ sockets[ws] = "OPEN"

\* the text the calling handler posts in its catch: that of app.message
\* (app.js 231-242) or that of app.event('app_mention') (app.js 276-287)
ApologyFor(via) == IF via = "mention" THEN MentionApologyText ELSE ApologyText

\* the catch of sendWebSocketMessage (app.js 189-195) followed, once its await
\* is over, by the catch of the calling handler (app.js 229-243, 274-288): with
\* a currentMessage cm it awaits handleErrorMessage, otherwise it goes on to
\* the apology at once.  Gives the call issued and the task awaiting it,
\* the call getting index k.
CatchCall(cm, msg, via) ==
  IF cm # NULL THEN Call("update", cm, ErrorText(msg), "catch")
  ELSE Call("post", 0, ApologyFor(via), "apology")

CatchTask(cm, k, via) ==
  [NoTask EXCEPT !.kind = IF cm # NULL THEN "catch" ELSE "apology", !.call = k,
                 !.via = via]

\* say({text: "Thinking..."}) (app.js 159): the placeholder post
SayCall == Call("post", 0, ThinkingText, "say")

\* A user turn arrives by one of the two handlers (a direct message, app.js
\* 199-244, or a mention with a non-empty text, app.js 247-289):
\* sendWebSocketMessage up to its first suspension.
UserTurn(maxTurns, maxSockets) ==
  /\ nTurns < maxTurns
  /\ nTurns' = nTurns + 1
  /\ \E via \in Entries :
       IF IsOpen
       THEN /\ calls' = Append(calls, SayCall)
            /\ tasks' = tasks \cup {[NoTask EXCEPT !.kind = "say", !.via = via,
                                                   !.call = Len(calls) + 1]}
            /\ UNCHANGED << ws, sockets >>
       ELSE /\ Len(sockets) < maxSockets
            /\ sockets' = Append(sockets, "CONNECTING")
            /\ ws' = Len(sockets) + 1
            /\ tasks' = tasks \cup {[NoTask EXCEPT !.kind = "connect", !.via = via,
                                                   !.sock = Len(sockets) + 1]}
            /\ UNCHANGED calls
  /\ ended' = ""
  /\ UNCHANGED << reconnectAttempts, timers, scheduled, turnVars, sent, clock,
                  histVars, splitVars >>

\* ws.on('open') (app.js 39-43); resolve() resumes the turn awaiting this
\* socket, which posts its placeholder.
SocketOpen(s) ==
  /\ sockets[s] = "CONNECTING"
  /\ sockets' = [sockets EXCEPT ![s] = "OPEN"]
  /\ reconnectAttempts' = 0
  /\ scheduled' = << >>
  /\ LET waiting == { t \in tasks : t.kind = "connect" /\ t.sock = s }
     IN IF waiting # {}
        THEN /\ calls' = Append(calls, SayCall)
             /\ tasks' = (tasks \ waiting)
                           \cup {[NoTask EXCEPT !.kind = "say",
                                                !.via = (CHOOSE t \in waiting : TRUE).via,
                                                !.call = Len(calls) + 1]}
        ELSE UNCHANGED << calls, tasks >>
  /\ ended' = ""
  /\ UNCHANGED << ws, timers, turnVars, sent, clock, histVars, nTurns, splitVars >>

\* the first ws.on('error') handler (app.js 106-129) up to its await: the
\* calls it issues and the tasks awaiting them, the first call getting index k
SocketErrorCalls ==
  IF currentMessage # NULL
  THEN << Call("update", currentMessage, GenericErrorText, "sockerr") >>
  ELSE << >>

SocketErrorTasks(k) ==
  IF currentMessage # NULL
  THEN {[NoTask EXCEPT !.kind = "sockerr", !.call = k]}
  ELSE {}

\* ws.on('close') (app.js 131-143): the timers after it
CloseTimers ==
  IF reconnectAttempts < MAX_RECONNECT_ATTEMPTS
  THEN Append(timers, [delay |-> RECONNECT_DELAY * reconnectAttempts,
                       due |-> clock + RECONNECT_DELAY * reconnectAttempts])
  ELSE timers

CloseScheduled ==
  IF reconnectAttempts < MAX_RECONNECT_ATTEMPTS
  THEN Append(scheduled, RECONNECT_DELAY * reconnectAttempts)
  ELSE scheduled

\* the turn ends in error if it was active
Errored == IF phase = "active" THEN "errored" ELSE phase

\* A connecting socket fails: ws emits 'error' and then 'close' in the same
\* tick; the rejected promise resumes the turn awaiting the socket in its
\* catch once both handlers have run.
ConnectFail(s) ==
  /\ sockets[s] = "CONNECTING"
  /\ sockets' = [sockets EXCEPT ![s] = "CLOSED"]
  /\ ws' = NULL
  /\ timers' = CloseTimers
  /\ scheduled' = CloseScheduled
  /\ LET waiting == { t \in tasks : t.kind = "connect" /\ t.sock = s }
         k == Len(calls) + Len(SocketErrorCalls)
     IN IF waiting # {}
        THEN LET via == (CHOOSE t \in waiting : TRUE).via
             IN /\ calls' = calls \o SocketErrorCalls
                              \o << CatchCall(currentMessage, ConnectErrorText, via) >>
                /\ tasks' = (tasks \ waiting) \cup SocketErrorTasks(Len(calls) + 1)
                              \cup {CatchTask(currentMessage, k + 1, via)}
        ELSE /\ calls' = calls \o SocketErrorCalls
             /\ tasks' = tasks \cup SocketErrorTasks(Len(calls) + 1)
  /\ phase' = Errored
  /\ ended' = IF phase = "active" THEN "transport" ELSE ""
  /\ UNCHANGED << reconnectAttempts, turnVars, sent, clock, frames, turnStart,
                  nFrames, nTurns, splitVars >>

\* An open socket emits 'error' (both error handlers, app.js 106-129 and
\* 145-148); its 'close' follows in a later tick.
SocketError(s) ==
  /\ sockets[s] = "OPEN"
  /\ sockets' = [sockets EXCEPT ![s] = "CLOSING"]
  /\ calls' = calls \o SocketErrorCalls
  /\ tasks' = tasks \cup SocketErrorTasks(Len(calls) + 1)
  /\ phase' = Errored
  /\ ended' = IF phase = "active" THEN "transport" ELSE ""
  /\ UNCHANGED << ws, reconnectAttempts, timers, scheduled, turnVars, sent, clock,
                  frames, turnStart, nFrames, nTurns, splitVars >>

\* ws.on('close') (app.js 131-143) of a socket that was open
SocketClose(s) ==
  /\ sockets[s] \in {"OPEN", "CLOSING"}
  /\ sockets' = [sockets EXCEPT ![s] = "CLOSED"]
  /\ ws' = NULL
  /\ timers' = CloseTimers
  /\ scheduled' = CloseScheduled
  /\ ended' = ""
  /\ UNCHANGED << reconnectAttempts, turnVars, tasks, calls, sent, clock, histVars,
                  nTurns, splitVars >>

\* the timers without the i-th
Without(seq, i) == SubSeq(seq, 1, i - 1) \o SubSeq(seq, i + 1, Len(seq))

\* The reconnect timer's callback (app.js 137-141).
ReconnectFire(i, maxSockets) ==
  /\ i \in 1..Len(timers)
  /\ clock >= timers[i].due
  /\ timers' = Without(timers, i)
  /\ reconnectAttempts' = reconnectAttempts + 1
  /\ IF IsOpen
     THEN UNCHANGED << ws, sockets >>
     ELSE /\ Len(sockets) < maxSockets
          /\ sockets' = Append(sockets, "CONNECTING")
          /\ ws' = Len(sockets) + 1
  /\ ended' = ""
  /\ UNCHANGED << scheduled, turnVars, tasks, calls, sent, clock, histVars, nTurns,
                  splitVars >>

(***************************************************************************)
(* The platform answers a pending call; the async function awaiting it     *)
(* resumes and runs to its next await or to its end.                       *)
(***************************************************************************)
Answered(st) == { i \in 1..Len(calls) : calls[i].st = st }

\* the answers the platform may still give
Results ==
  {"ok"} \cup (IF Cardinality(Answered("rate_limited")) < MaxRateLimits
               THEN {"rate_limited"} ELSE {})
         \cup (IF Cardinality(Answered("error")) < MaxPlatformErrors
               THEN {"error"} ELSE {})

Pending(t) == t.call # 0 /\ calls[t.call].st = "pending"

Answer(i, r) == [calls EXCEPT ![i].st = r]

\* what ws.send does (app.js 185) on the socket ws refers to: "sent",
\* or "throws" (ws is null: a TypeError; the socket is still connecting: the
\* library throws).  On a socket that is closing the library's versions differ:
\* it throws or drops the frame silently.
SendOutcomes ==
  IF ws = NULL THEN {"throws"}
  ELSE IF sockets[ws] = "OPEN" THEN {"sent"}
  ELSE IF sockets[ws] = "CONNECTING" THEN {"throws"}
  ELSE {"throws", "dropped"}

\* say(...) of the placeholder resolved (app.js 159-186): the turn's state is
\* set and the request frame is sent.
ReplySay(t) ==
  /\ t \in tasks /\ t.kind = "say" /\ Pending(t)
  /\ \E o \in SendOutcomes :
       /\ currentMessage' = t.call
       /\ messageContent' = << >>
       /\ lastUpdateTime' = 0
       /\ isStreaming' = FALSE
       /\ frames' = << >>
       /\ turnStart' = clock
       /\ IF o = "throws"
          THEN /\ calls' = Append(Answer(t.call, "ok"),
                                  CatchCall(t.call, SendErrorText, t.via))
               /\ tasks' = (tasks \ {t})
                             \cup {CatchTask(t.call, Len(calls) + 1, t.via)}
               /\ phase' = "errored"
               /\ ended' = "transport"
               /\ UNCHANGED sent
          ELSE /\ calls' = Answer(t.call, "ok")
               /\ tasks' = tasks \ {t}
               /\ phase' = "active"
               /\ ended' = ""
               /\ sent' = IF o = "sent"
                          THEN Append(sent, [sock |-> ws, type |-> "chat",
                                             content |-> UserText])
                          ELSE sent
  /\ UNCHANGED << connVars, clock, nFrames, nTurns, splitVars >>

\* say(...) of the placeholder rejected: the catch of sendWebSocketMessage
\* (app.js 189-195) with the currentMessage of an earlier turn, if any.
ReplySayFailed(t) ==
  /\ t \in tasks /\ t.kind = "say" /\ Pending(t)
  /\ \E r \in Results \ {"ok"} :
       /\ calls' = Append(Answer(t.call, r),
                          CatchCall(currentMessage, SayErrorText, t.via))
       /\ tasks' = (tasks \ {t})
                     \cup {CatchTask(currentMessage, Len(calls) + 1, t.via)}
  /\ ended' = ""
  /\ UNCHANGED << connVars, turnVars, sent, clock, histVars, nTurns, splitVars >>

\* handleErrorMessage returned in the catch of sendWebSocketMessage, whatever
\* the platform answered (app.js 308-310); the error is thrown again
\* (app.js 194) and the handler that called posts its apology (app.js 231
\* for a direct message, app.js 276 for a mention).
ReplyCatch(t) ==
  /\ t \in tasks /\ t.kind = "catch" /\ Pending(t)
  /\ \E r \in Results :
       /\ calls' = Append(Answer(t.call, r),
                          Call("post", 0, ApologyFor(t.via), "apology"))
       /\ tasks' = (tasks \ {t})
                     \cup {[NoTask EXCEPT !.kind = "apology", !.via = t.via,
                                          !.call = Len(calls) + 1]}
  /\ ended' = ""
  /\ UNCHANGED << connVars, turnVars, sent, clock, histVars, nTurns, splitVars >>

\* The awaited call of a function that does nothing more with the result:
\* the apology (app.js 231, 276), handleErrorMessage for an error frame
\* (app.js 66, 292-311), the update of the socket error handler (app.js 110).
ReplyLast(t) ==
  /\ t \in tasks /\ t.kind \in {"apology", "error", "sockerr"} /\ Pending(t)
  /\ \E r \in Results : calls' = Answer(t.call, r)
  /\ tasks' = tasks \ {t}
  /\ ended' = ""
  /\ UNCHANGED << connVars, turnVars, sent, clock, histVars, nTurns, splitVars >>

\* the turn is completed if it was active
Completed == IF phase = "active" THEN "completed" ELSE phase

\* updateSlackMessage returned to the stream_chunk branch (app.js 91-92) or to
\* the stream_complete branch (app.js 76-78): the call succeeded, or failed
\* with an error that is only logged (app.js 338).
ReplyFlush(t) ==
  /\ t \in tasks /\ t.kind \in {"chunk", "complete"} /\ Pending(t)
  /\ \E r \in Results \ {"rate_limited"} : calls' = Answer(t.call, r)
  /\ tasks' = tasks \ {t}
  /\ IF t.kind = "chunk"
     THEN /\ lastUpdateTime' = t.now
          /\ UNCHANGED << messageContent, phase >>
          /\ ended' = ""
     ELSE /\ messageContent' = << >>
          /\ lastUpdateTime' = 0
          /\ phase' = Completed
          /\ ended' = "complete"
  /\ UNCHANGED << connVars, currentMessage, isStreaming, sent, clock, frames,
                  turnStart, nFrames, nTurns, splitVars >>

\* updateSlackMessage got rate_limited (app.js 333-335): it waits.
ReplyRateLimited(t) ==
  /\ t \in tasks /\ t.kind \in {"chunk", "complete"} /\ Pending(t)
  /\ "rate_limited" \in Results
  /\ \E ra \in RetryAfterValues :
       tasks' = (tasks \ {t})
                  \cup {[t EXCEPT !.call = 0, !.due = clock + RetryDelay(ra)]}
  /\ calls' = Answer(t.call, "rate_limited")
  /\ ended' = ""
  /\ UNCHANGED << connVars, turnVars, sent, clock, histVars, nTurns, splitVars >>

\* the wait is over: updateSlackMessage(content) is called again (app.js 336)
\* and issues the same content to what currentMessage is now.
RetryFire(t) ==
  /\ t \in tasks /\ t.call = 0 /\ t.due # 0 /\ clock >= t.due
  /\ calls' = Append(calls, Call("update", currentMessage, t.content, t.kind))
  /\ tasks' = (tasks \ {t}) \cup {[t EXCEPT !.call = Len(calls) + 1, !.due = 0]}
  /\ ended' = ""
  /\ UNCHANGED << connVars, turnVars, sent, clock, histVars, nTurns, splitVars >>

\* handleChatResponse after one of its calls (app.js 373-411): on success the
\* next chunk is posted under the target message; any error, a rate limit
\* included, ends it (app.js 428-430).
ReplyChat(t) ==
  /\ t \in tasks /\ t.kind = "chat" /\ Pending(t)
  /\ \E r \in Results :
       IF r = "ok" /\ t.rest # << >>
       THEN /\ calls' = Append(Answer(t.call, r),
                               Call("post", t.target, Head(t.rest), "chat"))
            /\ tasks' = (tasks \ {t})
                          \cup {[t EXCEPT !.call = Len(calls) + 1, !.rest = Tail(t.rest)]}
            /\ UNCHANGED phase
            /\ ended' = ""
       ELSE /\ calls' = Answer(t.call, r)
            /\ tasks' = tasks \ {t}
            /\ phase' = Completed
            /\ ended' = "chat"
  /\ UNCHANGED << connVars, turnVars, sent, clock, frames, turnStart, nFrames,
                  nTurns, splitVars >>

(***************************************************************************)
(* ws.on('message') (app.js 46-104), up to the handler's first await.      *)
(* The effect of a frame is given as a record: the new values of the turn  *)
(* variables, the calls issued and the tasks suspended (k: the index the   *)
(* first issued call gets).                                                *)
(***************************************************************************)
Effect(streaming, content, last, newCalls, newTasks, done) ==
  [isStreaming |-> streaming, messageContent |-> content, lastUpdateTime |-> last,
   calls |-> newCalls, tasks |-> newTasks, ended |-> done]

\* a handler that resets the turn's state instead of leaving it alone
ResetEffect == Effect(FALSE, << >>, 0, << >>, {}, "")

NoEffect == Effect(isStreaming, messageContent, lastUpdateTime, << >>, {}, "")

\* handleErrorMessage(jsonMessage, currentMessage, app) (app.js 292-311); with
\* no currentMessage, reading currentMessage.channel throws inside its try
OnError(f, k) ==
  IF currentMessage = NULL
  THEN Effect(isStreaming, messageContent, lastUpdateTime, << >>, {}, "")
  ELSE Effect(isStreaming, messageContent, lastUpdateTime,
              << Call("update", currentMessage, ErrorText(f.error), "error") >>,
              {[NoTask EXCEPT !.kind = "error", !.call = k]}, "")

\* the stream_complete branch (app.js 71-81); updateSlackMessage returns at
\* once when there is no currentMessage (app.js 315)
OnStreamComplete(k) ==
  IF messageContent = << >>
  THEN Effect(FALSE, messageContent, lastUpdateTime, << >>, {}, "complete")
  ELSE IF currentMessage = NULL
  THEN Effect(FALSE, << >>, 0, << >>, {}, "complete")
  ELSE Effect(FALSE, messageContent, lastUpdateTime,
              << Call("update", currentMessage, messageContent, "complete") >>,
              {[NoTask EXCEPT !.kind = "complete", !.call = k,
                              !.content = messageContent]}, "")

\* the stream_chunk branch (app.js 84-95)
OnStreamChunk(f, k) ==
  LET content == Cat(messageContent, f.content)
      now == clock
  IN IF now - lastUpdateTime >= updateInterval
     THEN IF currentMessage = NULL
          THEN Effect(TRUE, content, now, << >>, {}, "")
          ELSE Effect(TRUE, content, lastUpdateTime,
                      << Call("update", currentMessage, content, "chunk") >>,
                      {[NoTask EXCEPT !.kind = "chunk", !.call = k, !.now = now,
                                      !.content = content]}, "")
     ELSE Effect(TRUE, content, lastUpdateTime, << >>, {}, "")

\* handleChatResponse(jsonMessage, currentMessage, app) up to its first await
\* (app.js 343-386, 413); with no currentMessage, reading
\* currentMessage.channel throws inside its try
OnChatResponse(f, k) ==
  LET content == Trim(f.content)
      chunks == ResponseChunks(f.content)
  IN IF chunks = << >> \/ currentMessage = NULL
     THEN Effect(isStreaming, messageContent, lastUpdateTime, << >>, {}, "chat")
     ELSE Effect(isStreaming, messageContent, lastUpdateTime,
                 << Call("update", currentMessage, chunks[1], "chat") >>,
                 {[NoTask EXCEPT !.kind = "chat", !.call = k, !.rest = Tail(chunks),
                                 !.target = currentMessage, !.content = content]},
                 "")

\* a dispatch whose complete-message branch does not test the streaming flag
OnMessageUnguarded(f, k) ==
  IF f.type = "malformed" THEN NoEffect
  ELSE IF Includes(f.content, AckMarker) THEN NoEffect
  ELSE IF f.type = "error" THEN OnError(f, k)
  ELSE IF f.type = "stream_complete" THEN OnStreamComplete(k)
  ELSE IF f.type = "stream_chunk" /\ f.content # << >> THEN OnStreamChunk(f, k)
  ELSE IF f.type \in {"chat_response", "stream"} /\ f.content # << >>
       THEN OnChatResponse(f, k)
  ELSE NoEffect

\* the dispatch of ws.on('message') (app.js 46-104)
OnMessage(f, k) ==
  IF f.type = "malformed" THEN NoEffect
  ELSE IF Includes(f.content, AckMarker) THEN NoEffect
  ELSE IF f.type = "error" THEN OnError(f, k)
  ELSE IF f.type = "stream_complete" THEN OnStreamComplete(k)
  ELSE IF f.type = "stream_chunk" /\ f.content # << >> THEN OnStreamChunk(f, k)
  ELSE IF f.type \in {"chat_response", "stream"} /\ f.content # << >> /\ ~isStreaming
       THEN OnChatResponse(f, k)
  ELSE NoEffect

\* A frame arrives on an open socket.
RecvFrame(s, f, maxFrames) ==
  /\ sockets[s] = "OPEN"
  /\ nFrames < maxFrames
  /\ nFrames' = nFrames + 1
  /\ LET e == OnMessage(f, Len(calls) + 1)
     IN /\ isStreaming' = e.isStreaming
        /\ messageContent' = e.messageContent
        /\ lastUpdateTime' = e.lastUpdateTime
        /\ calls' = calls \o e.calls
        /\ tasks' = tasks \cup e.tasks
        /\ ended' = IF f.type = "error" /\ phase = "active" THEN "error" ELSE e.ended
        /\ phase' = IF e.ended \in {"complete", "chat"} THEN Completed
                    ELSE IF f.type = "error" THEN Errored
                    ELSE phase
  /\ frames' = Append(frames, f)
  /\ UNCHANGED << connVars, currentMessage, sent, clock, turnStart, nTurns, splitVars >>

(***************************************************************************)
(* Time.                                                                   *)
(***************************************************************************)
\* Date.now() (app.js 87) advances by a step, whatever the program is doing;
\* the clock runs up to StartTime + MaxClock
Tick(d) ==
  /\ clock + d <= StartTime + MaxClock
  /\ clock' = clock + d
  /\ ended' = ""
  /\ UNCHANGED << connVars, turnVars, tasks, calls, sent, histVars, nTurns, splitVars >>

\* the due times of the timers that have not run out yet
Dues ==
  { timers[i].due : i \in 1..Len(timers) } \cup { t.due : t \in { u \in tasks : u.due # 0 } }

\* the clock advances to the time the next timer runs out
TimerDue ==
  /\ \E d \in Dues :
       /\ d > clock
       /\ \A e \in Dues : e > clock => d <= e
       /\ clock' = d
  /\ ended' = ""
  /\ UNCHANGED << connVars, turnVars, tasks, calls, sent, histVars, nTurns, splitVars >>

(***************************************************************************)
(* The splitter alone: a content is drawn and split.                       *)
(***************************************************************************)
\* line lengths around the limit
LineLengths == { 0, 1, MAX_LENGTH \div 2, MAX_LENGTH - 1, MAX_LENGTH }

RECURSIVE LinesOf(_)
LinesOf(lens) ==
  IF lens = << >> THEN << >> ELSE << Str("a", Head(lens)) >> \o LinesOf(Tail(lens))

\* contents of up to MaxLines lines
SplitInputs ==
  { JoinLines(LinesOf(lens)) :
      lens \in UNION { [1..n -> LineLengths] : n \in 1..MaxLines } }

InitSplit ==
  /\ InitState
  /\ splitIn \in SplitInputs
  /\ splitOut = << >>
  /\ splitDone = FALSE

\* handleChatResponse's content.trim(), its return on an empty content and
\* its split (app.js 345-368)
ApplySplit ==
  /\ ~splitDone
  /\ splitOut' = ResponseChunks(splitIn)
  /\ splitDone' = TRUE
  /\ UNCHANGED << connVars, turnVars, tasks, calls, sent, clock, histVars, ended,
                  nTurns, splitIn >>

(***************************************************************************)
(* Specifications.                                                         *)
(***************************************************************************)
\* a user turn on a connection that opens and a platform that posts the
\* placeholder
NextTurn(maxTurns, maxSockets) ==
  \/ UserTurn(maxTurns, maxSockets)
  \/ \E s \in 1..Len(sockets) : SocketOpen(s)
  \/ \E t \in tasks : ReplySay(t)

\* failures of the transport and of the calls of sendWebSocketMessage
NextFail ==
  \/ \E s \in 1..Len(sockets) : ConnectFail(s)
  \/ \E s \in 1..Len(sockets) : SocketError(s)
  \/ \E s \in 1..Len(sockets) : SocketClose(s)
  \/ \E t \in tasks : ReplySayFailed(t)
  \/ \E t \in tasks : ReplyCatch(t)
  \/ \E t \in tasks : ReplyLast(t)

\* the flushes of a streamed response and their retries
NextFlush ==
  \/ \E t \in tasks : ReplyFlush(t)
  \/ \E t \in tasks : ReplyRateLimited(t)
  \/ \E t \in tasks : RetryFire(t)
  \/ TimerDue

\* a streamed response on a connection that stays open: stream frames,
\* flushes and their retries, time
Next ==
  \/ NextTurn(MaxTurns, MaxSockets)
  \/ NextFlush
  \/ \E s \in 1..Len(sockets), f \in ChunkFrames : RecvFrame(s, f, MaxFrames)
  \/ \E d \in TickSteps : Tick(d)

Spec == Init /\ [][Next]_vars

\* turns that end in error: stream and error frames, transport errors and
\* the reconnects that follow a close
NextErr ==
  \/ NextTurn(MaxTurns, MaxErrSockets)
  \/ NextFail
  \/ \E i \in 1..Len(timers) : ReconnectFire(i, MaxErrSockets)
  \/ NextFlush
  \/ \E s \in 1..Len(sockets), f \in StreamFrames : RecvFrame(s, f, MaxErrFrames)

SpecErr == Init /\ [][NextErr]_vars

\* a complete response: chat_response and stream frames, the chunked calls
NextChat ==
  \/ NextTurn(MaxTurns, MaxSockets)
  \/ \E t \in tasks : ReplyChat(t)
  \/ \E s \in 1..Len(sockets), f \in ChatFrames : RecvFrame(s, f, MaxChatFrames)

SpecChat == Init /\ [][NextChat]_vars

\* connection management: turns, sockets and reconnect timers, no frames
NextConn ==
  \/ UserTurn(MaxConnTurns, MaxConnSockets)
  \/ \E s \in 1..Len(sockets) : SocketOpen(s)
  \/ \E s \in 1..Len(sockets) : ConnectFail(s)
  \/ \E s \in 1..Len(sockets) : SocketError(s)
  \/ \E s \in 1..Len(sockets) : SocketClose(s)
  \/ \E i \in 1..Len(timers) : ReconnectFire(i, MaxConnSockets)
  \/ TimerDue

SpecConn == Init /\ [][NextConn]_vars

\* the splitter applied to a drawn content
SpecSplit == InitSplit /\ [][ApplySplit]_vars

\* frames of every kind but error, in any order
MixedFrames == ChunkFrames \cup ChatFrames \cup OtherFrames

\* the frame dispatch: a turn on an open connection that receives frames of
\* every kind, with the flushes and the calls of a complete response
NextFrames ==
  \/ NextTurn(MaxTurns, MaxSockets)
  \/ NextFlush
  \/ \E t \in tasks : ReplyChat(t)
  \/ \E s \in 1..Len(sockets), f \in MixedFrames : RecvFrame(s, f, MaxMixedFrames)

SpecFrames == Init /\ [][NextFrames]_vars

(***************************************************************************)
(* Properties.                                                             *)
(***************************************************************************)
\* the frames received in the turn are stream_chunk frames, then at most one
\* stream_complete
StreamShaped ==
  \A i \in 1..Len(frames) :
    \/ frames[i].type = "stream_chunk"
    \/ frames[i].type = "stream_complete" /\ i = Len(frames)

\* ... and the stream_complete has been received after at least one chunk
StreamCompleted ==
  /\ StreamShaped
  /\ Len(frames) >= 2
  /\ frames[Len(frames)].type = "stream_complete"

\* c1 c2 ... cn of the stream_chunk frames received
RECURSIVE Concatenation(_)
Concatenation(fs) ==
  IF fs = << >> THEN << >>
  ELSE IF Head(fs).type = "stream_chunk"
       THEN Cat(Head(fs).content, Concatenation(Tail(fs)))
       ELSE Concatenation(Tail(fs))

\* the update calls of the streaming path: flushes, the final flush, retries
Flushes == { i \in 1..Len(calls) : calls[i].op = "update" /\ calls[i].by \in {"chunk", "complete"} }

\* the updates the platform has applied to message ts, and the text it shows:
\* that of the update issued last among them
Applied(ts) ==
  { i \in 1..Len(calls) : calls[i].op = "update" /\ calls[i].ts = ts /\ calls[i].st = "ok" }

Shown(ts) ==
  IF Applied(ts) = {} THEN ThinkingText
  ELSE calls[CHOOSE i \in Applied(ts) : \A j \in Applied(ts) : j <= i].text

\* no streaming handler is suspended: every flush and retry is over
FlushesOver == \A t \in tasks : t.kind \notin {"chunk", "complete"}

\* C1: when stream_chunk frames c1..cn and then stream_complete have been
\* received in a turn and every flush is over (no call having failed with
\* an error other than a rate limit), the text shown on the target message,
\* that of the last update applied, is the concatenation c1 ... cn.
C1_FinalTextIsConcatenation ==
  (phase = "completed" /\ StreamCompleted /\ FlushesOver /\ Answered("error") = {})
    => Shown(currentMessage) = Concatenation(frames)

\* C2: within a turn of stream frames, every update issued to the target message
\* carries a text that has the text of every update issued before it as a
\* prefix, re-issued updates included.
C2_FlushesNeverRewind ==
  StreamShaped =>
    \A i, j \in Flushes :
      (i < j /\ calls[i].ts = calls[j].ts) => IsPrefix(calls[i].text, calls[j].text)

\* ceil(d / updateInterval)
Ceil500(d) == (d + updateInterval - 1) \div updateInterval

\* C3: in a turn of stream frames that all arrive after the request was
\* sent, with no call rate-limited, the number of update calls issued is at
\* most ceil(turn duration / 500) + 1.
C3_UpdateCallsBounded ==
  ( /\ phase \in {"active", "completed"}
    /\ StreamShaped
    /\ Answered("rate_limited") = {}
    /\ \A i \in Flushes : calls[i].at > turnStart )
    => Cardinality(Flushes) <= Ceil500(clock - turnStart) + 1

\* C4: for a content longer than MAX_LENGTH whose lines are each at most
\* MAX_LENGTH long, the chunks are each at most MAX_LENGTH long, none is
\* empty, and joined with newlines they are the content.
C4_SplitIsExact ==
  LET content == Trim(splitIn)
      lines == SplitLines(content)
  IN ( /\ splitDone
       /\ StrLen(content) > MAX_LENGTH
       /\ \A i \in 1..Len(lines) : StrLen(lines[i]) <= MAX_LENGTH )
       => /\ \A i \in 1..Len(splitOut) :
               StrLen(splitOut[i]) <= MAX_LENGTH /\ splitOut[i] # << >>
          /\ JoinLines(splitOut) = content

\* a step in which a socket opens
OpenStep == \E s \in 1..Len(sockets) : sockets[s] = "CONNECTING" /\ sockets'[s] = "OPEN"

\* C5: between two successful opens at most MAX_RECONNECT_ATTEMPTS automatic
\* reconnects are scheduled, however many closes there are; the counter is 0
\* after a successful open and no other step sets it to 0.
C5_NoSixthReconnect ==
  [][ /\ Len(scheduled') <= MAX_RECONNECT_ATTEMPTS
      /\ OpenStep => reconnectAttempts' = 0
      /\ (reconnectAttempts # 0 /\ reconnectAttempts' = 0) => OpenStep ]_vars

\* the second half of C5 alone
C5_ResetOnlyOnOpen ==
  [][ /\ OpenStep => reconnectAttempts' = 0
      /\ (reconnectAttempts # 0 /\ reconnectAttempts' = 0) => OpenStep ]_vars

\* C6: the i-th automatic reconnect scheduled since the last successful open
\* is delayed by i x RECONNECT_DELAY: 1000, 2000, 3000, 4000, 5000 ms.
C6_DelaysFromOneSecond ==
  \A i \in 1..Len(scheduled) : scheduled[i] = i * RECONNECT_DELAY

\* C7: when an error frame with error text e is received while a turn is
\* active, one update call is issued, to the turn's target message, with a text
\* that contains e.
C7_ErrorFrameSurfaced ==
  [][ \A e \in ErrorTexts :
        (phase = "active" /\ frames' = Append(frames, Frame("error", << >>, e)))
          => /\ Len(calls') = Len(calls) + 1
             /\ calls'[Len(calls')].op = "update"
             /\ calls'[Len(calls')].ts = currentMessage
             /\ Includes(calls'[Len(calls')].text, e) ]_vars

\* an error frame has ended an active turn and its update is in the log
C7_Witness ==
  /\ ended = "error"
  /\ frames # << >>
  /\ frames[Len(frames)].type = "error"
  /\ calls[Len(calls)].by = "error"
  /\ calls[Len(calls)].ts = currentMessage
  /\ Includes(calls[Len(calls)].text, frames[Len(frames)].error)

\* C8: when the handling of stream_complete has finished, or an error frame or
\* a transport error has ended the turn, the buffer is empty, the streaming
\* flag is false and the last-flush timestamp is 0.
C8_TurnStateCleared ==
  ended \in {"complete", "error", "transport"}
    => messageContent = << >> /\ ~isStreaming /\ lastUpdateTime = 0

\* a step in which a socket emits 'error' (a connect fails, an open socket errors)
TransportErrorStep ==
  \E s \in 1..Len(sockets) :
    \/ sockets[s] = "CONNECTING" /\ sockets'[s] = "CLOSED"
    \/ sockets[s] = "OPEN" /\ sockets'[s] = "CLOSING"

\* no turn is in flight: none was started, or the last one completed or errored
NoTurnInFlight == nTurns = 0 \/ phase \in {"completed", "errored"}

\* C9: a transport error with no turn in flight issues no update call.
C9_SilentWithoutTurn ==
  [][ (TransportErrorStep /\ NoTurnInFlight)
        => \A i \in (Len(calls) + 1)..Len(calls') : calls'[i].op # "update" ]_vars

\* C10: a call answered rate_limited is re-issued: it is waiting for its
\* retry, or the same call has been issued again.
C10_RateLimitedIsRetried ==
  \A i \in Answered("rate_limited") :
    \/ \E t \in tasks : t.due # 0 /\ t.content = calls[i].text
    \/ \E j \in (i + 1)..Len(calls) :
         /\ calls[j].op = calls[i].op
         /\ calls[j].ts = calls[i].ts
         /\ calls[j].text = calls[i].text

\* the exceptions sendWebSocketMessage has thrown to its caller: the catch of
\* the calling handler (app.js 229-243, 274-288) runs for nothing else, and
\* posts one apology for each
Propagated == { i \in 1..Len(calls) : calls[i].by = "apology" }

\* C11: no failure of the connect, of the placeholder post or of the send of
\* the request makes sendWebSocketMessage throw to its caller.
C11_NothingPropagates == Propagated = {}

\* C12: a frame that is no JSON, or the connection acknowledgement, leaves
\* currentMessage, the buffer, the streaming flag and the last-flush
\* timestamp as they are, issues no platform call and suspends no handler.
C12_DiscardedFrameChangesNothing ==
  [][ \A f \in OtherFrames :
        frames' = Append(frames, f)
          => /\ UNCHANGED << currentMessage, messageContent, isStreaming, lastUpdateTime >>
             /\ calls' = calls
             /\ tasks' = tasks ]_vars

\* both discarded frames have been received by a turn that is streaming
C12_Witness ==
  /\ \A f \in OtherFrames : \E i \in 1..Len(frames) : frames[i] = f
  /\ currentMessage # NULL
  /\ isStreaming
  /\ messageContent # << >>

\* the socket the shared reference points to is open
RefOpen == ws # NULL /\ sockets[ws] = "OPEN"

\* a step in which a user turn calls establishConnection
TurnStep == nTurns' = nTurns + 1

\* some socket is open
SomeOpen == \E s \in 1..Len(sockets) : sockets[s] = "OPEN"

\* C14: a socket is created only when no connection is open; a user turn that
\* finds the connection open creates none, and a user turn that finds none
\* open creates one and makes it the reference, whatever the reconnect
\* counter is.
C14_FreshSocketOnlyWhenNoneOpen ==
  [][ /\ Len(sockets') > Len(sockets) => ~SomeOpen
      /\ (TurnStep /\ RefOpen) => (sockets' = sockets /\ ws' = ws)
      /\ (TurnStep /\ ~SomeOpen)
           => /\ Len(sockets') = Len(sockets) + 1
              /\ ws' = Len(sockets')
              /\ sockets'[ws'] = "CONNECTING" ]_vars

\* C14 read on the shared reference alone: a socket is created only when the
\* socket the reference points to is not open, and a user turn creates one
\* exactly when it is not
C14_ByReference ==
  [][ /\ Len(sockets') > Len(sockets) => ~RefOpen
      /\ (TurnStep /\ RefOpen) => (sockets' = sockets /\ ws' = ws)
      /\ (TurnStep /\ ~RefOpen)
           => /\ Len(sockets') = Len(sockets) + 1
              /\ ws' = Len(sockets')
              /\ sockets'[ws'] = "CONNECTING" ]_vars

\* automatic reconnection has stopped at the ceiling and a user turn has
\* created the newest socket, which is connecting
C14_AfterCeiling ==
  /\ reconnectAttempts >= MAX_RECONNECT_ATTEMPTS
  /\ timers = << >>
  /\ ws = Len(sockets)
  /\ ws # NULL
  /\ sockets[ws] = "CONNECTING"
  /\ \E t \in tasks : t.kind = "connect" /\ t.sock = ws

\* the turn has ended in error and the platform has applied an error text to
\* its target message
ErrorShown ==
  /\ phase = "errored"
  /\ \E i \in 1..Len(calls) :
       /\ calls[i].op = "update"
       /\ calls[i].ts = currentMessage
       /\ calls[i].by \in {"error", "sockerr", "catch"}
       /\ calls[i].st = "ok"

\* C15: once the error text is on the target message, no stream_chunk,
\* stream_complete or complete-message frame received before the next user
\* turn issues another update of the target message.
C15_ErrorIsTerminal ==
  [][ ( /\ ErrorShown
        /\ Len(frames') = Len(frames) + 1
        /\ frames'[Len(frames')].type
             \in {"stream_chunk", "stream_complete", "chat_response", "stream"} )
        => \A i \in (Len(calls) + 1)..Len(calls') :
             ~(calls'[i].op = "update" /\ calls'[i].ts = currentMessage) ]_vars

\* the time the last flush was issued
LastFlushAt ==
  calls[CHOOSE i \in Flushes : \A j \in Flushes : j <= i].at

\* a step in which a stream_chunk frame is received after stream_chunk frames
\* only
ChunkStep ==
  /\ \A i \in 1..Len(frames) : frames[i].type = "stream_chunk"
  /\ Len(frames') = Len(frames) + 1
  /\ frames'[Len(frames')].type = "stream_chunk"

\* C16: with no call rate-limited, a chunk of an active turn issues an update
\* if and only if no flush was issued yet in the turn or at least
\* updateInterval ms have passed since the last flush was issued; a chunk
\* that arrives sooner (b at 100 ms after a at 0 ms) only accumulates.
C16_FlushIffIntervalElapsed ==
  [][ (phase = "active" /\ ChunkStep /\ Answered("rate_limited") = {})
        => ( Len(calls') > Len(calls)
               <=> (Flushes = {} \/ clock - LastFlushAt >= updateInterval) ) ]_vars

\* a step in which a frame is received
FrameStep == Len(frames') = Len(frames) + 1

\* C17: a chat_response or stream frame received while the streaming flag is
\* true issues no call, suspends no handler and leaves currentMessage, the
\* buffer, the flag and the last-flush timestamp as they are; a
\* stream_complete received when the buffer is empty issues no call.
C17_IgnoredWhileStreaming ==
  [][ /\ (isStreaming /\ FrameStep /\ frames'[Len(frames')] \in ChatFrames)
           => /\ calls' = calls
              /\ tasks' = tasks
              /\ UNCHANGED turnVars
      /\ ( /\ messageContent = << >>
           /\ FrameStep
           /\ frames'[Len(frames')].type = "stream_complete" )
           => calls' = calls ]_vars

\* a stream_complete on an empty buffer, a chunk and then a complete-message
\* frame were received: the turn is still streaming and neither the
\* stream_complete nor the complete-message frame issued a call
C17_Witness ==
  /\ Len(frames) = 3
  /\ frames[1].type = "stream_complete"
  /\ frames[2].type = "stream_chunk"
  /\ frames[3] \in ChatFrames
  /\ isStreaming
  /\ messageContent = frames[2].content
  /\ \A i \in 1..Len(calls) : calls[i].by \notin {"chat", "complete"}

\* the placeholder posts that are answered ok in this step: say resolves and
\* sendWebSocketMessage goes on to ws.send
SaidNow ==
  { i \in 1..Len(calls) :
      calls[i].by = "say" /\ calls[i].st = "pending" /\ calls'[i].st = "ok" }

\* the chat request of a turn
Request == [sock |-> ws, type |-> "chat", content |-> UserText]

\* C18: a request frame is sent only in the step in which the turn's
\* placeholder is recorded as the target and the buffer, the flag and the
\* timestamp are reset, after the post of the placeholder; and whenever
\* ws.send returns for a turn, the connection was open and the request
\* {type: "chat", content: user text} went out on it.
C18_RequestAfterPlaceholderOnOpenSocket ==
  [][ /\ sent' # sent
           => /\ SaidNow # {}
              /\ currentMessage' \in SaidNow
              /\ messageContent' = << >> /\ ~isStreaming' /\ lastUpdateTime' = 0
      /\ (SaidNow # {} /\ phase' = "active")
           => /\ RefOpen
              /\ sent' = Append(sent, Request) ]_vars

\* the order of C18 alone: a request goes out only with its turn's placeholder
\* posted and recorded and the state reset, on the open socket
C18_RequestOnlyAfterPlaceholder ==
  [][ sent' # sent
        => /\ SaidNow # {}
           /\ currentMessage' \in SaidNow
           /\ messageContent' = << >> /\ ~isStreaming' /\ lastUpdateTime' = 0
           /\ RefOpen
           /\ sent' = Append(sent, Request) ]_vars

\* the sockets that are connecting or open
Live == { s \in 1..Len(sockets) : sockets[s] \in {"CONNECTING", "OPEN"} }

\* C19: at most one socket is connecting or open, and the shared reference
\* points to it: no turn or reconnect timer creates a second one, and no
\* close of an older socket takes the reference from a newer one.
C19_OneLiveSocket ==
  /\ Cardinality(Live) <= 1
  /\ \A s \in Live : ws = s

\* C20: the reconnect counter is between 0 and MAX_RECONNECT_ATTEMPTS and at
\* most one reconnect timer is pending.
C20_CounterAndTimersBounded ==
  /\ reconnectAttempts \in 0..MAX_RECONNECT_ATTEMPTS
  /\ Len(timers) <= 1

\* the first half of C20 alone
C20_CounterBounded == reconnectAttempts \in 0..MAX_RECONNECT_ATTEMPTS

\* the calls handleChatResponse has issued, in the order issued
ChatCalls == SelectSeq(calls, LAMBDA c : c.by = "chat")

\* the turn received one frame, a complete response, and its handler is over,
\* every call of it having succeeded
ChatResponseDone ==
  /\ phase = "completed"
  /\ Len(frames) = 1
  /\ frames[1].type \in {"chat_response", "stream"}
  /\ \A t \in tasks : t.kind # "chat"
  /\ \A i \in 1..Len(ChatCalls) : ChatCalls[i].st = "ok"

\* C13: for a complete response whose content is split into m >= 2 chunks, the
\* calls issued are one update of the target message with the first chunk, then
\* m - 1 posts threaded under the target message with the other chunks in
\* order, and the texts of these calls joined by newlines are the content.
C13_ChunkedCallsRebuildContent ==
  LET content == Trim(frames[1].content)
      ks == SplitChunks(content)
  IN (ChatResponseDone /\ Len(ks) >= 2)
       => /\ Len(ChatCalls) = Len(ks)
          /\ ChatCalls[1].op = "update"
          /\ \A i \in 2..Len(ks) : ChatCalls[i].op = "post"
          /\ \A i \in 1..Len(ks) :
               ChatCalls[i].ts = currentMessage /\ ChatCalls[i].text = ks[i]
          /\ JoinLines([i \in 1..Len(ks) |-> ChatCalls[i].text]) = content

=============================================================================
